---- MODULE Spec2Model ----
(***************************************************************************)
(* Provider abstraction and dispatch layer of the AI gateway:              *)
(*   - the streaming event writer (writeTextStreamSSE) and the streaming   *)
(*     callbacks of the route handlers that wrap it,                       *)
(*   - the service registry and the dispatch facade (services/ai.ts).      *)
(*   - the non-streaming route handlers, the synthetic-data parser and     *)
(*     validator, model discovery and the service configuration.           *)
(* Spec runs one streaming callback against one sink, SpecRegistry the     *)
(* registry, the configuration and the dispatch entry points, SpecEnvelope *)
(* the non-streaming route handlers on one adapter result, SpecSynthetic   *)
(* both branches of the synthetic-data handler, SpecJson the parser and    *)
(* the validator on one input, SpecModels one model discovery call.        *)
(***************************************************************************)
EXTENDS Integers, Sequences, FiniteSets, TLC

(***************************************************************************)
(* Bounds                                                                  *)
(***************************************************************************)
MaxFrags == 2
MaxBody == 2
MaxModels == 3

(***************************************************************************)
(* Streaming: inputs                                                       *)
(***************************************************************************)
\* the text fragments an adapter's textStream can yield
Frag == {"1", "x"}

\* an absent JavaScript value in a numeric position
Undefined == -1

\* the streaming call sites
Handlers ==
  {"handleStreaming", "summarize", "pdfSummarizer", "pdfTranslate",
   "outline", "compose", "syntheticData"}

\* Usage of the adapter result, streamingHandler.ts type Usage: the token
\* counts a provider reports are copied through, so a few values that tell
\* the three fields apart stand for them
Usage ==
  {[promptTokens |-> 1, completionTokens |-> 1, totalTokens |-> 2],
   [promptTokens |-> 1, completionTokens |-> 0, totalTokens |-> 2],
   [promptTokens |-> 0, completionTokens |-> 2, totalTokens |-> 1]}

NoUsage == [promptTokens |-> Undefined, completionTokens |-> Undefined,
            totalTokens |-> Undefined]

FragSeqs == UNION {[1..n -> Frag] : n \in 0..MaxFrags}

\* TextResult: textStream is optional; the fragment sequence either
\* completes or throws after its last fragment; usage is absent, a value
\* (or a promise that resolves to it), or a promise that rejects.
TextResult ==
  [hasTextStream : BOOLEAN, fragments : FragSeqs, ending : {"complete", "throw"},
   usageKind : {"absent", "resolved", "rejected"}, usage : Usage \cup {NoUsage}]

\* the request meta handed to the writer
meta == [provider |-> "x", model |-> "m", version |-> "v1"]

VARIABLES
  handler,      \* which streaming callback runs
  payload,      \* the request payload (count and schema of synthetic data)
  result,       \* the adapter result handed to it
  sinkThrows,   \* does the sink raise on a write/close after the caller left
  pc,           \* position of the callback
  consumed,     \* fragments pulled from result.textStream so far
  err,          \* message of the exception being handled, "" if none
  pending,      \* an exception is propagating out of the callback
  sinkState,    \* "open", "aborted" (caller disconnected) or "closed"
  sinkCalls     \* the calls made on the sink, in order, with their outcome

streamVars ==
  <<handler, payload, result, sinkThrows, pc, consumed, err, pending, sinkState, sinkCalls>>

VARIABLES
  enabled,      \* provider name -> the enabled flag of its configuration
  providers,    \* ServiceRegistry.providers: name -> adapter
  request,      \* the last dispatch call: entry point and requested name
  invoked,      \* the adapter operations the last dispatch call invoked
  response      \* what the last dispatch call returned or threw

regVars == <<enabled, providers, request, invoked, response>>

VARIABLES
  call,         \* a call of a route handler or of a function: its inputs
  outcome       \* what the call returned

callVars == <<call, outcome>>

vars == <<streamVars, regVars, callVars>>

(***************************************************************************)
(* Streaming: events                                                       *)
(***************************************************************************)
MsgUnsupported == "Streaming not supported for this provider/model"
MsgIter == "textStream failed"
MsgUsage == "usage rejected"
MsgSink == "sink closed"

EmptyRecord == [k \in {} |-> ""]

\* object spread {...base, ...extra}: the keys of extra win
Spread(base, extra) ==
  [k \in DOMAIN base \cup DOMAIN extra |->
     IF k \in DOMAIN extra THEN extra[k] ELSE base[k]]

\* JSON.stringify of an object of numbers drops the undefined members
StringifyNumbers(obj) ==
  [k \in {j \in DOMAIN obj : obj[j] # Undefined} |-> obj[k]]

\* options.extraDone as each call site passes it
extraDone(h) ==
  IF h = "pdfTranslate" THEN [pdfMetadata |-> "pdfData"] ELSE EmptyRecord

\* the callbacks that route through the shared writeTextStreamSSE
UsesWriter(h) == h \in {"handleStreaming", "summarize", "pdfSummarizer", "pdfTranslate"}

\* is the write of the Error event inside its own try/catch
GuardsErrorWrite(h) == h # "syntheticData"

\* is stream.close() inside its own try/catch
GuardsClose(h) == h # "syntheticData"

ChunkEvent(chunk) ==
  [chunk |-> chunk, provider |-> meta.provider, model |-> meta.model,
   version |-> meta.version]

\* UsageOut with the prompt and completion counts exchanged
UsageOutSwapped(usage) ==
  StringifyNumbers([input_tokens |-> usage.completionTokens,
                    output_tokens |-> usage.promptTokens,
                    total_tokens |-> usage.totalTokens])

\* the usage member of the Done event of writeTextStreamSSE and of the
\* inlined copies in outline and compose
UsageOut(usage) ==
  StringifyNumbers([input_tokens |-> usage.promptTokens,
                    output_tokens |-> usage.completionTokens,
                    total_tokens |-> usage.totalTokens])

WriterDoneEvent(usage, extra) ==
  Spread([done |-> TRUE, usage |-> UsageOut(usage), provider |-> meta.provider,
          model |-> meta.model, version |-> meta.version], extra)

ErrorEvent(message) == [error |-> message, done |-> TRUE]

IsChunk(e) == "chunk" \in DOMAIN e
IsError(e) == "error" \in DOMAIN e /\ "done" \in DOMAIN e /\ e.done = TRUE
IsDone(e) ==
  /\ "error" \notin DOMAIN e /\ "chunk" \notin DOMAIN e
  /\ "done" \in DOMAIN e /\ e.done = TRUE
  /\ "usage" \in DOMAIN e
IsTerminal(e) == IsDone(e) \/ IsError(e)

(***************************************************************************)
(* Synthetic data: parsing the accumulated text                            *)
(***************************************************************************)
\* characters: "bt" is the backtick
WhiteSpace == {" "}
FenceJson == <<"bt", "bt", "bt", "j", "s", "o", "n">>
Fence == <<"bt", "bt", "bt">>

StartsWith(t, p) == Len(t) >= Len(p) /\ SubSeq(t, 1, Len(p)) = p
EndsWith(t, p) == Len(t) >= Len(p) /\ SubSeq(t, Len(t) - Len(p) + 1, Len(t)) = p

RECURSIVE TrimStart(_)
TrimStart(t) ==
  IF t # <<>> /\ Head(t) \in WhiteSpace THEN TrimStart(Tail(t)) ELSE t

RECURSIVE TrimEnd(_)
TrimEnd(t) ==
  IF t # <<>> /\ t[Len(t)] \in WhiteSpace THEN TrimEnd(SubSeq(t, 1, Len(t) - 1)) ELSE t

\* String.prototype.trim
Trim(t) == TrimEnd(TrimStart(t))

\* the text after its prefix p and the white space that follows p
StripPrefix(t, p) == TrimStart(SubSeq(t, Len(p) + 1, Len(t)))

\* the text without a closing fence and the white space before it
StripClosingFence(t) ==
  IF EndsWith(t, Fence) THEN TrimEnd(SubSeq(t, 1, Len(t) - Len(Fence))) ELSE t

\* is t (no white space around it) a JSON value. JSON texts are spelled
\* with the digit 1, the brackets, and one symbol each for the literals null
\* and true and for a string literal; the element separator is not among
\* the symbols, so an array holds at most one element
RECURSIVE IsValue(_)
IsValue(t) ==
  LET inner == Trim(SubSeq(t, 2, Len(t) - 1)) IN
  \/ t # <<>> /\ \A i \in 1..Len(t) : t[i] = "1"
  \/ Len(t) = 1 /\ t[1] \in {"null", "true", "str"}
  \/ Len(t) >= 2 /\ t[1] = "{" /\ t[Len(t)] = "}" /\ inner = <<>>
  \/ Len(t) >= 2 /\ t[1] = "[" /\ t[Len(t)] = "]" /\ (inner = <<>> \/ IsValue(inner))

\* the JSON type of the value a valid text spells
JsonType(t) ==
  CASE t[1] = "1" -> "number"
    [] t[1] = "null" -> "null"
    [] t[1] = "true" -> "boolean"
    [] t[1] = "str" -> "string"
    [] t[1] = "{" -> "object"
    [] OTHER -> "array"

\* JSON.parse: a syntax error is ok = FALSE; a value is its type and its
\* text without the white space between the symbols
JSONParse(t) ==
  LET body == Trim(t) IN
  IF IsValue(body)
  THEN [ok |-> TRUE,
        value |-> [type |-> JsonType(body),
                   val |-> SelectSeq(body, LAMBDA c : c \notin WhiteSpace)]]
  ELSE [ok |-> FALSE, value |-> [type |-> "undefined", val |-> <<>>]]

\* Array.isArray(data) ? 'array' : typeof data (typeof null is 'object')
ActualType(data) == IF data.type = "null" THEN "object" ELSE data.type

\* a schema object: its type member ("" when it has none) and the type of
\* its nested items/properties schema ("" when it has none)
Schema(type, nested) == [present |-> TRUE, type |-> type, nested |-> nested]

\* no schema in the payload
NoSchema == [present |-> FALSE, type |-> "", nested |-> ""]

validateAgainstSchema(data, schema) ==
  IF ~schema.present \/ schema.type = "" THEN TRUE
  ELSE LET expectedType == schema.type
           actualType == ActualType(data)
       IN  ~ \/ (expectedType = "object" /\ actualType # "object")
             \/ (expectedType = "array" /\ actualType # "array")
             \/ (expectedType = "string" /\ actualType # "string")
             \/ (expectedType = "number" /\ actualType # "number")
             \/ (expectedType = "boolean" /\ actualType # "boolean")

MsgParse == "Failed to parse generated data as valid JSON"

\* parseAndValidateJSON that parses the text as it is
parseAndValidateJSONUnstripped(text, schema) ==
  LET parsed == JSONParse(Trim(text))
  IN  IF parsed.ok
      THEN [data |-> parsed.value, valid |-> validateAgainstSchema(parsed.value, schema)]
      ELSE [data |-> [error |-> MsgParse], valid |-> FALSE]

\* the whole body is inside try: a SyntaxError of JSON.parse ends in the
\* catch, which returns the parse-failure value
parseAndValidateJSON(text, schema) ==
  LET trimmed == Trim(text)
      cleanedText ==
        IF StartsWith(trimmed, FenceJson)
        THEN StripClosingFence(StripPrefix(trimmed, FenceJson))
        ELSE IF StartsWith(trimmed, Fence)
             THEN StripClosingFence(StripPrefix(trimmed, Fence))
             ELSE trimmed
      parsed == JSONParse(cleanedText)
  IN  IF parsed.ok
      THEN [data |-> parsed.value, valid |-> validateAgainstSchema(parsed.value, schema)]
      ELSE [data |-> [error |-> MsgParse], valid |-> FALSE]

\* the schemas the synthetic-data payloads of the handlers declare
SchemaTypes == {NoSchema, Schema("number", ""), Schema("string", "")}

\* an own member of the usage object, undefined when it has none
Member(obj, k) == IF k \in DOMAIN obj THEN obj[k] ELSE Undefined

\* the Done event of writeSyntheticDataStreamSSE
SyntheticDoneEvent(usage, text, pl) ==
  LET pv == parseAndValidateJSON(text, pl.schema) IN
  [done |-> TRUE,
   data |-> pv.data,
   usage |-> StringifyNumbers([input_tokens |-> Member(usage, "inputTokens"),
                               output_tokens |-> Member(usage, "outputTokens"),
                               total_tokens |-> Member(usage, "totalTokens")]),
   metadata |-> [count |-> IF pl.count = 0 THEN 1 ELSE pl.count,
                 validation_passed |-> pv.valid],
   provider |-> meta.provider, model |-> meta.model, version |-> meta.version]

(***************************************************************************)
(* Streaming: the sink                                                     *)
(***************************************************************************)
\* what a writeSSE call does in the sink's current state
WriteOutcome ==
  IF sinkState = "open" THEN "delivered"
  ELSE IF sinkThrows THEN "threw" ELSE "dropped"

WriteCall(e) == [op |-> "writeSSE", data |-> e, outcome |-> WriteOutcome]

\* close() on a sink the caller already left raises when the sink raises
CloseThrows == sinkState # "open" /\ sinkThrows

CloseCall == [op |-> "close", outcome |-> IF CloseThrows THEN "threw" ELSE "closed"]

\* the events the caller received
RECURSIVE Delivered(_)
Delivered(calls) ==
  IF calls = <<>> THEN <<>>
  ELSE LET c == Head(calls) IN
       (IF c.op = "writeSSE" /\ c.outcome = "delivered" THEN <<c.data>> ELSE <<>>)
         \o Delivered(Tail(calls))

events == Delivered(sinkCalls)
NumWrites == Cardinality({i \in 1..Len(sinkCalls) : sinkCalls[i].op = "writeSSE"})
NumCloses == Cardinality({i \in 1..Len(sinkCalls) : sinkCalls[i].op = "close"})

\* the text accumulated by writeSyntheticDataStreamSSE: every fragment is
\* one character, so the concatenation is the sequence of fragments consumed
accumulatedText == SubSeq(result.fragments, 1, consumed)

Running == pc \notin {"idle", "returned", "thrown"}

(***************************************************************************)
(* Streaming: the callback passed to streamSSE                             *)
(***************************************************************************)
StreamInit ==
  /\ handler \in Handlers
  /\ payload \in [count : {0, 2}, schema : SchemaTypes]
  /\ (handler # "syntheticData" => payload = [count |-> 0, schema |-> NoSchema])
  /\ result \in TextResult
  /\ (result.usageKind = "resolved" <=> result.usage \in Usage)
  /\ (~result.hasTextStream => result.fragments = <<>> /\ result.ending = "complete")
  /\ sinkThrows \in BOOLEAN
  /\ pc = "start"
  /\ consumed = 0
  /\ err = ""
  /\ pending = FALSE
  /\ sinkState = "open"
  /\ sinkCalls = <<>>

\* CheckTextStream without the capability check
CheckTextStreamIterates ==
  /\ pc = "start"
  /\ pc' = "next"
  /\ UNCHANGED <<regVars, callVars, handler, payload, result, sinkThrows, consumed, err, pending, sinkState, sinkCalls>>

\* const textStream = result.textStream; if (!textStream) throw
\* (no call site passes options.initialEvent, so no first event follows)
CheckTextStream ==
  /\ pc = "start"
  /\ IF result.hasTextStream
     THEN pc' = "next" /\ err' = err
     ELSE pc' = "catch" /\ err' = MsgUnsupported
  /\ UNCHANGED <<regVars, callVars, handler, payload, result, sinkThrows, consumed, pending, sinkState, sinkCalls>>

\* NextFragment that treats a failing fragment sequence as exhausted
NextFragmentSwallow ==
  /\ pc = "next"
  /\ IF consumed < Len(result.fragments)
     THEN consumed' = consumed + 1 /\ pc' = "chunk"
     ELSE consumed' = consumed /\ pc' = "usage"
  /\ UNCHANGED <<regVars, callVars, handler, payload, result, sinkThrows, err, pending, sinkState, sinkCalls>>

\* for await (const chunk of textStream): request the next fragment
NextFragment ==
  /\ pc = "next"
  /\ IF consumed < Len(result.fragments)
     THEN consumed' = consumed + 1 /\ pc' = "chunk" /\ err' = err
     ELSE IF result.ending = "throw"
          THEN consumed' = consumed /\ pc' = "catch" /\ err' = MsgIter
          ELSE consumed' = consumed /\ pc' = "usage" /\ err' = err
  /\ UNCHANGED <<regVars, callVars, handler, payload, result, sinkThrows, pending, sinkState, sinkCalls>>

\* WriteChunk that puts the new Chunk in front of the earlier ones
WriteChunkReordered ==
  /\ pc = "chunk"
  /\ sinkCalls' = <<WriteCall(ChunkEvent(result.fragments[consumed]))>> \o sinkCalls
  /\ IF WriteOutcome = "threw"
     THEN pc' = "catch" /\ err' = MsgSink
     ELSE pc' = "next" /\ err' = err
  /\ UNCHANGED <<regVars, callVars, handler, payload, result, sinkThrows, consumed, pending, sinkState>>

\* await stream.writeSSE({chunk, provider, model, version})
WriteChunk ==
  /\ pc = "chunk"
  /\ sinkCalls' = Append(sinkCalls, WriteCall(ChunkEvent(result.fragments[consumed])))
  /\ IF WriteOutcome = "threw"
     THEN pc' = "catch" /\ err' = MsgSink
     ELSE pc' = "next" /\ err' = err
  /\ UNCHANGED <<regVars, callVars, handler, payload, result, sinkThrows, consumed, pending, sinkState>>

\* const usage = await result.usage; if (usage) ...
AwaitUsage ==
  /\ pc = "usage"
  /\ CASE result.usageKind = "rejected" -> pc' = "catch" /\ err' = MsgUsage
       [] result.usageKind = "absent" -> pc' = "finally" /\ err' = err
       [] result.usageKind = "resolved" -> pc' = "done" /\ err' = err
  /\ UNCHANGED <<regVars, callVars, handler, payload, result, sinkThrows, consumed, pending, sinkState, sinkCalls>>

DoneEvent ==
  IF handler = "syntheticData"
  THEN SyntheticDoneEvent(result.usage, accumulatedText, payload)
  ELSE WriterDoneEvent(result.usage, extraDone(handler))

\* WriteDone whose try block throws after the Done event went out
WriteDoneThenThrows ==
  /\ pc = "done"
  /\ sinkCalls' = Append(sinkCalls, WriteCall(DoneEvent))
  /\ pc' = "catch" /\ err' = MsgSink
  /\ UNCHANGED <<regVars, callVars, handler, payload, result, sinkThrows, consumed, pending, sinkState>>

\* await stream.writeSSE({done: true, usage, ...})
WriteDone ==
  /\ pc = "done"
  /\ sinkCalls' = Append(sinkCalls, WriteCall(DoneEvent))
  /\ IF WriteOutcome = "threw"
     THEN pc' = "catch" /\ err' = MsgSink
     ELSE pc' = "finally" /\ err' = err
  /\ UNCHANGED <<regVars, callVars, handler, payload, result, sinkThrows, consumed, pending, sinkState>>

\* WriteError whose failing write leaves the callback without the finally block
WriteErrorSkipsFinally ==
  /\ pc = "catch"
  /\ sinkCalls' = Append(sinkCalls, WriteCall(ErrorEvent(err)))
  /\ pending' = (WriteOutcome = "threw")
  /\ pc' = IF WriteOutcome = "threw" THEN "thrown" ELSE "finally"
  /\ UNCHANGED <<regVars, callVars, handler, payload, result, sinkThrows, consumed, err, sinkState>>

\* catch (error): write the Error event, inside its own try/catch or not
WriteError ==
  /\ pc = "catch"
  /\ sinkCalls' = Append(sinkCalls, WriteCall(ErrorEvent(err)))
  /\ pending' = (WriteOutcome = "threw" /\ ~GuardsErrorWrite(handler))
  /\ pc' = "finally"
  /\ UNCHANGED <<regVars, callVars, handler, payload, result, sinkThrows, consumed, err, sinkState>>

\* finally: stream.close(), inside its own try/catch or not
Close ==
  /\ pc = "finally"
  /\ sinkCalls' = Append(sinkCalls, CloseCall)
  /\ sinkState' = IF sinkState = "open" THEN "closed" ELSE sinkState
  /\ pending' = (pending \/ (CloseThrows /\ ~GuardsClose(handler)))
  /\ pc' = IF pending' THEN "thrown" ELSE "returned"
  /\ UNCHANGED <<regVars, callVars, handler, payload, result, sinkThrows, consumed, err>>

\* the caller disconnects while the callback runs
Disconnect ==
  /\ Running
  /\ sinkState = "open"
  /\ sinkState' = "aborted"
  /\ UNCHANGED <<regVars, callVars, handler, payload, result, sinkThrows, pc, consumed, err, pending, sinkCalls>>

CallbackStep ==
  \/ CheckTextStream
  \/ NextFragment
  \/ WriteChunk
  \/ AwaitUsage
  \/ WriteDone
  \/ WriteError
  \/ Close

StreamNext ==
  \/ CheckTextStream
  \/ NextFragment
  \/ WriteChunk
  \/ AwaitUsage
  \/ WriteDone
  \/ WriteError
  \/ Close
  \/ Disconnect

\* no streaming callback is running
StreamIdle ==
  /\ handler = "handleStreaming"
  /\ payload = [count |-> 0, schema |-> NoSchema]
  /\ result = [hasTextStream |-> FALSE, fragments |-> <<>>, ending |-> "complete",
               usageKind |-> "absent", usage |-> NoUsage]
  /\ sinkThrows = FALSE
  /\ pc = "idle"
  /\ consumed = 0
  /\ err = ""
  /\ pending = FALSE
  /\ sinkState = "open"
  /\ sinkCalls = <<>>

(***************************************************************************)
(* Service registry and dispatch facade                                    *)
(***************************************************************************)
\* interfaces.ts ProviderName
ProviderName ==
  {"openai", "anthropic", "ollama", "openrouter", "lmstudio", "aigateway",
   "llamacpp", "google"}

\* the names of config/services.ts availableServices, lower-cased as
\* getServiceConfig compares them
ServiceNames == ProviderName \cup {"baseten", "llmgateway"}

\* a name no configuration and no adapter carries
UnknownName == "unknown"

RequestNames == ProviderName \cup {UnknownName}

\* the adapters that implement the optional describeImage
HasDescribeImage(name) == name = "ollama"

Adapter(n) == [name |-> n, describeImage |-> HasDescribeImage(n)]

\* config/services.ts: the enabled flag of each service configuration is
\* read from the environment once; llamacppConfig is enabled: true
EnabledConfigs == {e \in [ServiceNames -> BOOLEAN] : e["llamacpp"]}

Absent == [name |-> "undefined", describeImage |-> FALSE]

\* ServiceRegistry.get
registryGet(name) == IF name \in DOMAIN providers THEN providers[name] ELSE Absent

\* ServiceRegistry.register applied to a map
registerIn(map, provider) ==
  [n \in DOMAIN map \cup {provider.name} |->
     IF n = provider.name THEN provider ELSE map[n]]

\* config/services.ts isServiceEnabled via ai.ts checkServiceAvailability
checkServiceAvailability(service) ==
  IF service \in ProviderName THEN enabled[service] ELSE FALSE

NoRequest == [entry |-> "none", name |-> "none", stream |-> FALSE]
NoResponse == [kind |-> "none", detail |-> ""]
\* throw new Error(message + ": " + subject): the text before the colon and
\* the name interpolated after it
Thrown(message, subject) == [kind |-> "error", detail |-> message, subject |-> subject]
Returned(from) == [kind |-> "result", detail |-> from]

\* module load of registry.ts: the six built-in providers are registered
RegistryLoaded ==
  LET empty == [n \in {} |-> Absent] IN
  registerIn(registerIn(registerIn(registerIn(registerIn(registerIn(empty,
    Adapter("openai")), Adapter("anthropic")), Adapter("ollama")),
    Adapter("openrouter")), Adapter("lmstudio")), Adapter("aigateway"))

RegInit ==
  /\ enabled \in EnabledConfigs
  /\ providers = RegistryLoaded
  /\ request = NoRequest
  /\ invoked = {}
  /\ response = NoResponse

\* the registry as loaded, no dispatch call under way
RegIdle ==
  /\ enabled = [n \in ServiceNames |-> n = "llamacpp"]
  /\ providers = RegistryLoaded
  /\ request = NoRequest
  /\ invoked = {}
  /\ response = NoResponse

\* Dispatch that falls back to the first registered provider
DispatchFallback(entry, name, stream, config, op, notRegistered) ==
  LET provider == IF registryGet(name) = Absent
                  THEN registryGet("openai") ELSE registryGet(name) IN
  /\ request' = [entry |-> entry, name |-> name, stream |-> stream, config |-> config]
  /\ IF provider = Absent
     THEN invoked' = {} /\ response' = Thrown(notRegistered, name)
     ELSE /\ invoked' = {[adapter |-> provider.name, op |-> op, model |-> config.model]}
          /\ response' = Returned(provider.name)
  /\ UNCHANGED <<streamVars, callVars, enabled, providers>>

\* resolve the provider and call one operation on it
Dispatch(entry, name, stream, config, op, notRegistered) ==
  LET provider == registryGet(name) IN
  /\ request' = [entry |-> entry, name |-> name, stream |-> stream, config |-> config]
  /\ IF provider = Absent
     THEN invoked' = {} /\ response' = Thrown(notRegistered, name)
     ELSE /\ invoked' = {[adapter |-> provider.name, op |-> op, model |-> config.model]}
          /\ response' = Returned(provider.name)
  /\ UNCHANGED <<streamVars, callVars, enabled, providers>>

\* the stream and model members of the request's config; both are optional
Configs == [stream : {"true", "false", "undefined"}, model : {"undefined", meta.model}]

processTextOutputStreamRequest ==
  \E name \in RequestNames :
    Dispatch("processTextOutputStreamRequest", name, TRUE,
             [stream |-> "true", model |-> meta.model],
             "generateChatTextStreamResponse", "Unsupported service")

\* processTextOutputRequest that streams unless stream is false
processTextOutputRequestStreamsByDefault ==
  \E name \in RequestNames, config \in Configs :
    IF config.stream # "false"
    THEN Dispatch("processTextOutputRequest", name, TRUE, config,
                  "generateChatTextStreamResponse", "Unsupported service")
    ELSE Dispatch("processTextOutputRequest", name, FALSE, config,
                  "generateChatTextResponse", "Unsupported service")

\* const stream = config.stream || false; the streaming branch is
\* processTextOutputStreamRequest with the same config
processTextOutputRequest ==
  \E name \in RequestNames, config \in Configs :
    IF config.stream = "true"
    THEN Dispatch("processTextOutputRequest", name, TRUE, config,
                  "generateChatTextStreamResponse", "Unsupported service")
    ELSE Dispatch("processTextOutputRequest", name, FALSE, config,
                  "generateChatTextResponse", "Unsupported service")

processStructuredOutputRequest ==
  \E name \in RequestNames :
    Dispatch("processStructuredOutputRequest", name, FALSE,
             [stream |-> "false", model |-> meta.model],
             "generateChatStructuredResponse", "Unsupported service")

\* Vision without the describeImage check
VisionUnchecked(entry, name, notSupported) ==
  LET provider == registryGet(name) IN
  /\ request' = [entry |-> entry, name |-> name, stream |-> FALSE]
  /\ IF provider = Absent
     THEN invoked' = {} /\ response' = Thrown("Provider not registered", name)
     ELSE /\ invoked' = {[adapter |-> provider.name, op |-> "describeImage"]}
          /\ response' = Returned(provider.name)
  /\ UNCHANGED <<streamVars, callVars, enabled, providers>>

\* generateImageResponse, extractOCRText and the OCR route: the adapter must
\* be registered and implement describeImage
Vision(entry, name, notSupported) ==
  LET provider == registryGet(name) IN
  /\ request' = [entry |-> entry, name |-> name, stream |-> FALSE]
  /\ IF provider = Absent
     THEN invoked' = {} /\ response' = Thrown("Provider not registered", name)
     ELSE IF ~provider.describeImage
          THEN invoked' = {} /\ response' = Thrown(notSupported, name)
          ELSE /\ invoked' = {[adapter |-> provider.name, op |-> "describeImage"]}
               /\ response' = Returned(provider.name)
  /\ UNCHANGED <<streamVars, callVars, enabled, providers>>

MsgVision == "Vision capabilities not supported for service"
MsgOcr == "OCR capabilities not supported for service"

generateImageResponse ==
  \E name \in RequestNames : Vision("generateImageResponse", name, MsgVision)

extractOCRText == \E name \in RequestNames : Vision("extractOCRText", name, MsgVision)

\* routes/v1/ocr.ts: the route resolves the adapter itself; handleError turns
\* the Error into the error response
handleOcrRequest == \E service \in RequestNames : Vision("handleOcrRequest", service, MsgOcr)

\* getAvailableModels that unregisters a provider it finds disabled
getAvailableModelsPruning ==
  \E service \in RequestNames :
    LET provider == registryGet(service) IN
    /\ request' = [entry |-> "getAvailableModels", name |-> service, stream |-> FALSE]
    /\ IF ~checkServiceAvailability(service) \/ provider = Absent
       THEN /\ invoked' = {} /\ response' = Returned("empty list")
            /\ providers' = [n \in DOMAIN providers \ {service} |-> providers[n]]
       ELSE /\ invoked' = {[adapter |-> provider.name, op |-> "getAvailableModels"]}
            /\ response' = Returned(provider.name)
            /\ providers' = providers
    /\ UNCHANGED <<streamVars, callVars, enabled>>

\* ai.ts getAvailableModels: the only entry point that consults the
\* configuration before the registry
getAvailableModels ==
  \E service \in RequestNames :
    LET provider == registryGet(service) IN
    /\ request' = [entry |-> "getAvailableModels", name |-> service, stream |-> FALSE]
    /\ IF ~checkServiceAvailability(service) \/ provider = Absent
       THEN invoked' = {} /\ response' = Returned("empty list")
       ELSE /\ invoked' = {[adapter |-> provider.name, op |-> "getAvailableModels"]}
            /\ response' = Returned(provider.name)
    /\ UNCHANGED <<streamVars, callVars, enabled, providers>>

\* config/services.ts availableServices, in the order of the array
availableServices ==
  <<"openai", "anthropic", "ollama", "openrouter", "lmstudio", "aigateway",
    "llamacpp", "google", "baseten", "llmgateway">>

\* the priority member of each configuration
Priority ==
  [openai |-> 1, anthropic |-> 2, ollama |-> 3, openrouter |-> 4, lmstudio |-> 5,
   aigateway |-> 6, llamacpp |-> 7, google |-> 8, baseten |-> 9, llmgateway |-> 10]

ServiceConfig(n) == [name |-> n, enabled |-> enabled[n], priority |-> Priority[n]]

\* Array.prototype.sort((a, b) => a.priority - b.priority): ascending and
\* stable, as an insertion sort
RECURSIVE SortByPriority(_)
SortByPriority(seq) ==
  IF seq = <<>> THEN <<>>
  ELSE LET rest == SortByPriority(SubSeq(seq, 1, Len(seq) - 1))
           last == seq[Len(seq)]
           before == SelectSeq(rest, LAMBDA c : c.priority <= last.priority)
           after == SelectSeq(rest, LAMBDA c : c.priority > last.priority)
       IN  before \o <<last>> \o after

NullConfig == [name |-> "null", enabled |-> FALSE, priority |-> 0]

\* PrimaryService without the filter on enabled
PrimaryServiceUnfiltered ==
  LET enabledServices ==
        SortByPriority([i \in 1..Len(availableServices) |-> ServiceConfig(availableServices[i])])
  IN  IF enabledServices = <<>> THEN NullConfig ELSE enabledServices[1]

\* the value of getPrimaryService(): enabledServices[0] || null
PrimaryService ==
  LET enabledServices ==
        SortByPriority(SelectSeq(
          [i \in 1..Len(availableServices) |-> ServiceConfig(availableServices[i])],
          LAMBDA service : service.enabled))
  IN  IF enabledServices = <<>> THEN NullConfig ELSE enabledServices[1]

getPrimaryService ==
  /\ request' = [entry |-> "getPrimaryService", name |-> "none", stream |-> FALSE]
  /\ invoked' = {}
  /\ response' = Returned(PrimaryService.name)
  /\ UNCHANGED <<streamVars, callVars, enabled, providers>>

RegNext ==
  \/ processTextOutputRequest
  \/ processTextOutputStreamRequest
  \/ processStructuredOutputRequest
  \/ generateImageResponse
  \/ extractOCRText
  \/ handleOcrRequest
  \/ getAvailableModels
  \/ getPrimaryService

(***************************************************************************)
(* Non-streaming route handlers: the response envelope                     *)
(***************************************************************************)
NoCall == [handler |-> "none"]
NoOutcome == [status |-> 0]
CallIdle == call = NoCall /\ outcome = NoOutcome

\* the usage object of an adapter result: the AI SDK names the counts
\* promptTokens/completionTokens or inputTokens/outputTokens depending on
\* its version, and a count the provider did not report is undefined
NativeUsage ==
  [promptTokens : {Undefined, 10}, completionTokens : {Undefined, 5},
   inputTokens : {Undefined, 10}, outputTokens : {Undefined, 5},
   totalTokens : {Undefined, 15, 16}]

\* the result of generateChatTextResponse (Promise<any>): text, and usage
\* if the adapter supplies one
GenerateTextResult ==
  {r \in [text : {<<"1">>, <<"x">>}, hasUsage : BOOLEAN, usage : NativeUsage] :
     ~r.hasUsage => \A k \in DOMAIN r.usage : r.usage[k] = Undefined}

\* the result of describeImage: Ollama's prompt_eval_count and eval_count
DescribeImageResult == [prompt_eval_count : {Undefined, 0, 10}, eval_count : {Undefined, 5}]

\* c.json(body, status): JSON.stringify drops the undefined counts
Json(status, body) == [status |-> status, body |-> body]

MsgTypeError == "Cannot read properties of undefined"

\* utils/errorHandler handleError for a plain Error
handleError(message) ==
  Json(500, [error |-> message, errorCode |-> "INTERNAL_ERROR", statusCode |-> 500])

\* {input_tokens: usage.inputTokens, output_tokens: usage.outputTokens,
\*  total_tokens: usage.totalTokens}
UsageOutV5(usage) ==
  StringifyNumbers([input_tokens |-> usage.inputTokens,
                    output_tokens |-> usage.outputTokens,
                    total_tokens |-> usage.totalTokens])

\* the members are the arguments as given: a model that is undefined stays
\* undefined (and c.json leaves the member out)
createSummarizeResponse(summary, provider, model, usage) ==
  [summary |-> summary, provider |-> provider, model |-> model, usage |-> usage]

createSyntheticDataResponse(data, usage, metadata) ==
  [data |-> data, provider |-> meta.provider, model |-> meta.model, usage |-> usage,
   metadata |-> metadata]

\* the usage generateImageResponse, extractOCRText and the OCR route add to
\* the describeImage result
VisionUsage(r) ==
  LET OrZero(x) == IF x = Undefined THEN 0 ELSE x   \* x || 0
  IN  [input_tokens |-> OrZero(r.prompt_eval_count),
       output_tokens |-> OrZero(r.eval_count),
       total_tokens |-> OrZero(r.prompt_eval_count) + OrZero(r.eval_count)]

\* the handlers that answer with the text of generateChatTextResponse
TextHandlers == {"summarize", "askText", "syntheticData"}

\* the handlers that answer with the result of describeImage
VisionHandlers == {"generateImageResponse", "handleOcrRequest"}

EnvelopeInit ==
  /\ StreamIdle /\ RegIdle
  /\ \/ call \in [handler : TextHandlers, payload : [count : {0, 2}, schema : SchemaTypes],
                  config : [provider : {meta.provider}, model : {"undefined", meta.model}],
                  result : GenerateTextResult]
     \/ call \in [handler : VisionHandlers, payload : {[count |-> 0, schema |-> NoSchema]},
                  result : DescribeImageResult]
  /\ (call.handler # "syntheticData" => call.payload = [count |-> 0, schema |-> NoSchema])
  /\ (call.handler \in TextHandlers \ {"summarize"} => call.config.model = meta.model)
  /\ outcome = NoOutcome

\* summarize.ts, non-streaming branch: result.usage is dereferenced inside
\* the handler's try, whose catch answers through handleError
handleSummarizeRequest ==
  /\ call.handler = "summarize" /\ outcome = NoOutcome
  /\ outcome' =
       IF ~call.result.hasUsage THEN handleError(MsgTypeError)
       ELSE Json(200, createSummarizeResponse(call.result.text, call.config.provider,
                                              call.config.model,
                                              UsageOut(call.result.usage)))
  /\ UNCHANGED <<streamVars, regVars, call>>

\* askText.ts, non-streaming branch; createAskTextResponse receives the
\* answer, provider, model and the usage object built here
handleAskTextRequest ==
  /\ call.handler = "askText" /\ outcome = NoOutcome
  /\ outcome' =
       IF ~call.result.hasUsage THEN handleError(MsgTypeError)
       ELSE Json(200, [answer |-> call.result.text, provider |-> meta.provider,
                       model |-> meta.model, usage |-> UsageOutV5(call.result.usage)])
  /\ UNCHANGED <<streamVars, regVars, call>>

\* handleSyntheticDataRequest that answers an invalid result with an error
handleSyntheticDataRequestStrict ==
  /\ call.handler = "syntheticData" /\ outcome = NoOutcome
  /\ LET pv == parseAndValidateJSON(call.result.text, call.payload.schema) IN
     outcome' =
       IF ~call.result.hasUsage THEN handleError(MsgTypeError)
       ELSE IF ~pv.valid THEN handleError(MsgParse)
       ELSE Json(200, createSyntheticDataResponse(pv.data, UsageOutV5(call.result.usage),
                        [count |-> IF call.payload.count = 0 THEN 1 ELSE call.payload.count,
                         validation_passed |-> pv.valid]))
  /\ UNCHANGED <<streamVars, regVars, call>>

\* syntheticData.ts, non-streaming branch
handleSyntheticDataRequest ==
  /\ call.handler = "syntheticData" /\ outcome = NoOutcome
  /\ LET pv == parseAndValidateJSON(call.result.text, call.payload.schema) IN
     outcome' =
       IF ~call.result.hasUsage THEN handleError(MsgTypeError)
       ELSE Json(200, createSyntheticDataResponse(pv.data, UsageOutV5(call.result.usage),
                        [count |-> IF call.payload.count = 0 THEN 1 ELSE call.payload.count,
                         validation_passed |-> pv.valid]))
  /\ UNCHANGED <<streamVars, regVars, call>>

\* generateImageResponse and the OCR route once describeImage has resolved:
\* {...result, usage: {...}, service}
describeImageResponse ==
  /\ call.handler \in VisionHandlers /\ outcome = NoOutcome
  /\ outcome' = Json(200, [usage |-> VisionUsage(call.result), service |-> meta.provider])
  /\ UNCHANGED <<streamVars, regVars, call>>

EnvelopeNext ==
  \/ handleSummarizeRequest
  \/ handleAskTextRequest
  \/ handleSyntheticDataRequest
  \/ describeImageResponse

(***************************************************************************)
(* Synthetic data: calls of the parser and of the validator                *)
(***************************************************************************)
\* the model texts handed to parseAndValidateJSON: an opening fence or
\* none, a body of JSON symbols, white space or prose around the body,
\* a closing fence or none
ModelTexts ==
  LET BodySymbols == {"1", "{", "}", "[", "]", "null"}
      Bodies == UNION {[1..n -> BodySymbols] : n \in 0..MaxBody}
      Around == {<<>>, <<" ">>, <<"x">>}
  IN  {o \o l \o b \o t \o c :
         o \in {<<>>, Fence, FenceJson}, l \in Around, b \in Bodies, t \in Around,
         c \in {<<>>, Fence}}

\* the values JSON.parse can hand to validateAgainstSchema
JsonValues ==
  {JSONParse(t).value :
     t \in {<<"1">>, <<"null">>, <<"true">>, <<"str">>, <<"{", "}">>, <<"[", "]">>,
            <<"[", "1", "]">>, <<"[", "str", "]">>}}

\* payload.schema is any JSON object of the request (z.any)
SchemaObjects ==
  {NoSchema} \cup
  {Schema(type, nested) :
     type \in {"", "object", "array", "string", "number", "boolean", "integer"},
     nested \in {"", "number", "string"}}

JsonInit ==
  /\ StreamIdle /\ RegIdle
  /\ \/ call \in [handler : {"parseAndValidateJSON"}, text : ModelTexts,
                  schema : {NoSchema, Schema("number", ""), Schema("object", ""),
                            Schema("array", "")}]
     \/ call \in [handler : {"validateAgainstSchema"}, data : JsonValues,
                  schema : SchemaObjects]
  /\ outcome = NoOutcome

parseAndValidateJSONCall ==
  /\ call.handler = "parseAndValidateJSON" /\ outcome = NoOutcome
  /\ outcome' = [returned |-> TRUE, value |-> parseAndValidateJSON(call.text, call.schema)]
  /\ UNCHANGED <<streamVars, regVars, call>>

validateAgainstSchemaCall ==
  /\ call.handler = "validateAgainstSchema" /\ outcome = NoOutcome
  /\ outcome' = [returned |-> TRUE, value |-> validateAgainstSchema(call.data, call.schema)]
  /\ UNCHANGED <<streamVars, regVars, call>>

JsonNext ==
  \/ parseAndValidateJSONCall
  \/ validateAgainstSchemaCall

(***************************************************************************)
(* Adapters: model discovery                                               *)
(***************************************************************************)
\* the value of a member read from an object that does not have it
NoId == "undefined"

\* the entries of a discovery payload: the identifier member (Ollama: name,
\* LM Studio: id) is there or not
ModelEntries == {[id |-> "a", size |-> 1], [id |-> "b", size |-> 1], [size |-> 1]}

\* model => model.name, m => m.id
IdOf(model) == IF "id" \in DOMAIN model THEN model.id ELSE NoId

\* what fetch and response.json() can do: fetch rejects, the response is
\* not OK, json() rejects, or the body is null, an object without the list
\* member, an object whose list member is no array, or an object with a list
FetchOutcomes ==
  [kind : {"networkError", "notOk", "badJson", "null", "missing", "notArray"},
   list : {<<>>}]
  \cup [kind : {"list"}, list : UNION {[1..n -> ModelEntries] : n \in 0..MaxModels}]

Resolved(value) == [returned |-> TRUE, value |-> value]

\* list.map(model => model.name), list.map(m => m.id)
MapIds(list) == [i \in 1..Len(list) |-> IdOf(list[i])]

\* ollamaGetAvailableModels without the try/catch
ollamaGetAvailableModelsUncaught(fetch) ==
  IF fetch.kind = "list"
  THEN Resolved(MapIds(fetch.list))
  ELSE IF fetch.kind = "missing" THEN Resolved(<<>>)
       ELSE [returned |-> FALSE, value |-> <<>>]

\* OllamaProvider.getAvailableModels: a rejected fetch, the Error thrown for
\* a response that is not OK, a rejected json() and the TypeError of
\* data.models on null or of .map on a non-array all end in the catch;
\* data.models?.map(model => model.name) || [] keeps the entries' names,
\* undefined ones included
ollamaGetAvailableModels(fetch) ==
  IF fetch.kind = "list"
  THEN Resolved(MapIds(fetch.list))
  ELSE Resolved(<<>>)

\* LmStudioProvider.getAvailableModels: [] unless the response is OK and
\* data?.data is an array; ids that are no strings are filtered out
lmstudioGetAvailableModels(fetch) ==
  IF fetch.kind = "list"
  THEN Resolved(SelectSeq(MapIds(fetch.list), LAMBDA id : id # NoId))
  ELSE Resolved(<<>>)

ModelsInit ==
  /\ StreamIdle /\ RegIdle
  /\ call \in [handler : {"getAvailableModels"}, adapter : {"ollama", "lmstudio"},
               fetch : FetchOutcomes]
  /\ outcome = NoOutcome

providerGetAvailableModels ==
  /\ call.handler = "getAvailableModels" /\ outcome = NoOutcome
  /\ outcome' = IF call.adapter = "ollama"
                THEN ollamaGetAvailableModels(call.fetch)
                ELSE lmstudioGetAvailableModels(call.fetch)
  /\ UNCHANGED <<streamVars, regVars, call>>

(***************************************************************************)
(* Adapters: the operations of the Ollama adapter                          *)
(***************************************************************************)
\* one call of an adapter operation: what its single transport call does
\* (generateObject, generateText and streamText of the SDK, fetch behind
\* describeImage). "ok": it answers; "fails": it rejects, or throws at once
\* for streamText, with the cause; "notOk": fetch answers a response that is
\* not OK, with the cause as its status and body; "streamFails": streamText
\* returns a result whose fragment sequence fails later
AdapterInit ==
  /\ StreamIdle /\ RegIdle
  /\ call \in [handler : {"adapter"},
               op : {"generateChatTextResponse", "generateChatStructuredResponse",
                     "generateChatTextStreamResponse", "describeImage"},
               model : {"undefined", "m"},
               transport : {"ok", "fails", "notOk", "streamFails"},
               cause : {"API Error", "Network error", "400 Bad Request"},
               text : {<<"1">>, <<"x">>}]
  /\ (call.transport = "notOk" <=> call.op = "describeImage" /\ call.cause = "400 Bad Request")
  /\ (call.transport = "streamFails" => call.op = "generateChatTextStreamResponse")
  /\ outcome = NoOutcome

\* model || OLLAMA_CHAT_MODEL: the model the adapter hands to the SDK
modelToUse(model) == IF model = "undefined" THEN "OLLAMA_CHAT_MODEL" ELSE model

\* ollamaOperation whose catch answers an empty result
ollamaOperationSwallows(c) ==
  LET answer == [returned |-> TRUE, attempts |-> 1,
                 value |-> [model |-> modelToUse(c.model), text |-> c.text,
                            streamEnding |-> IF c.transport = "streamFails"
                                             THEN "throw" ELSE "complete"]]
  IN  IF c.transport \in {"fails", "notOk"}
      THEN [answer EXCEPT !.value.text = <<>>]
      ELSE answer

\* OllamaProvider: every operation makes one transport call; the SDK
\* operations rethrow new Error(prefix + error), ollamaRequest behind
\* describeImage lets a rejected fetch through and throws the status and
\* body of a response that is not OK; streamText is not awaited, so a
\* result whose stream fails later is returned as it is
ollamaOperation(c) ==
  LET answer == [returned |-> TRUE, attempts |-> 1,
                 value |-> [model |-> modelToUse(c.model), text |-> c.text,
                            streamEnding |-> IF c.transport = "streamFails"
                                             THEN "throw" ELSE "complete"]]
      prefix == CASE c.op = "describeImage" /\ c.transport = "fails" -> ""
                  [] c.op = "describeImage" -> "Ollama API error"
                  [] c.op = "generateChatStructuredResponse" -> "Ollama structured response error"
                  [] c.op = "generateChatTextResponse" -> "Ollama text response error"
                  [] OTHER -> "Ollama streaming response error"
  IN  IF c.transport \in {"fails", "notOk"}
      THEN [returned |-> FALSE, attempts |-> 1,
            error |-> [message |-> prefix, cause |-> c.cause]]
      ELSE answer

adapterOperation ==
  /\ call.handler = "adapter" /\ outcome = NoOutcome
  /\ outcome' = ollamaOperation(call)
  /\ UNCHANGED <<streamVars, regVars, call>>

(***************************************************************************)
(* Registry: the operations that change it                                 *)
(***************************************************************************)
\* the providers handed to register: a built-in adapter or a test double of
\* the same name (told apart by the describeImage member)
Providers ==
  {[name |-> n, describeImage |-> d] : n \in {"openai", "google"}, d \in BOOLEAN}

\* a ServiceRegistry object passed to replaceRegistryForTests: the global
\* serviceRegistry itself or another registry with its own map
Registries ==
  LET double(n) == [name |-> n, describeImage |-> ~HasDescribeImage(n)] IN
  {[ref |-> "serviceRegistry"]} \cup
  {[ref |-> "other", providers |-> m] :
     m \in {[n \in {} |-> Absent],
            [n \in {"openai"} |-> double(n)],
            [n \in {"google", "ollama"} |-> Adapter(n)]}}

RegistryOpsInit == StreamIdle /\ RegIdle /\ CallIdle

\* register(provider): this.providers.set(provider.name, provider)
register ==
  \E provider \in Providers :
    /\ providers' = registerIn(providers, provider)
    /\ call' = [handler |-> "registry", op |-> "register", provider |-> provider]
    /\ UNCHANGED <<streamVars, enabled, request, invoked, response, outcome>>

\* unregister(name): this.providers.delete(name)
unregister ==
  \E name \in {"openai", "google", UnknownName} :
    /\ providers' = [n \in DOMAIN providers \ {name} |-> providers[n]]
    /\ call' = [handler |-> "registry", op |-> "unregister", name |-> name]
    /\ UNCHANGED <<streamVars, enabled, request, invoked, response, outcome>>

\* clear(): this.providers.clear()
clear ==
  /\ providers' = [n \in {} |-> Absent]
  /\ call' = [handler |-> "registry", op |-> "clear"]
  /\ UNCHANGED <<streamVars, enabled, request, invoked, response, outcome>>

\* getAll that returns this.providers itself
getAllAliased ==
  /\ outcome' = [ref |-> "providers"]
  /\ call' = [handler |-> "registry", op |-> "getAll"]
  /\ UNCHANGED <<streamVars, regVars>>

\* getAll(): new Map(this.providers), a Map object of its own that the
\* caller keeps
getAll ==
  /\ outcome' = [ref |-> "copy", entries |-> providers]
  /\ call' = [handler |-> "registry", op |-> "getAll"]
  /\ UNCHANGED <<streamVars, regVars>>

\* the entries of the Map object the caller got from getAll
Snapshot == IF outcome.ref = "copy" THEN outcome.entries ELSE providers

\* the caller deletes a key of the Map it got from getAll: the object that
\* changes is the one the reference points to
snapshotDelete ==
  \E name \in {"openai", "google"} :
    /\ outcome # NoOutcome
    /\ call' = [handler |-> "registry", op |-> "snapshotDelete", name |-> name]
    /\ IF outcome.ref = "copy"
       THEN /\ outcome' = [outcome EXCEPT !.entries =
                             [n \in DOMAIN outcome.entries \ {name} |-> outcome.entries[n]]]
            /\ providers' = providers
       ELSE /\ providers' = [n \in DOMAIN providers \ {name} |-> providers[n]]
            /\ outcome' = outcome
    /\ UNCHANGED <<streamVars, enabled, request, invoked, response>>

\* replaceRegistryForTests(registry): serviceRegistry.clear() first, then
\* register every provider of registry.getAll(), which reads the argument's
\* map as it is after the clear
replaceRegistryForTests ==
  \E registry \in Registries :
    LET cleared == [n \in {} |-> Absent]
        source == IF registry.ref = "serviceRegistry"
                  THEN cleared ELSE registry.providers
        names == {source[k].name : k \in DOMAIN source}
    IN  /\ providers' = [n \in names |->
                           CHOOSE p \in {source[k] : k \in DOMAIN source} : p.name = n]
        /\ call' = [handler |-> "registry", op |-> "replaceRegistryForTests",
                    registry |-> registry]
        /\ UNCHANGED <<streamVars, enabled, request, invoked, response, outcome>>

RegistryOps ==
  \/ register
  \/ unregister
  \/ clear
  \/ getAll
  \/ snapshotDelete
  \/ replaceRegistryForTests

(***************************************************************************)
(* Streaming: the Done event under options.extraDone                       *)
(***************************************************************************)
\* options.extraDone is a Record<string, unknown>: any keys, among them the
\* call site's pdfMetadata and the keys of the Done event itself
ExtraDoneRecords ==
  LET value == [pdfMetadata |-> "pdfData", done |-> FALSE,
                usage |-> [input_tokens |-> 99], provider |-> "other",
                model |-> "other"]
  IN  {[k \in keys |-> value[k]] : keys \in SUBSET DOMAIN value}

WriterInit ==
  /\ StreamIdle /\ RegIdle
  /\ call \in [handler : {"writeTextStreamSSE"}, usage : Usage,
               extraDone : ExtraDoneRecords]
  /\ outcome = NoOutcome

\* writeTextStreamSSE, the final usage event: the object handed to
\* JSON.stringify for the Done event
writeTextStreamSSE ==
  /\ call.handler = "writeTextStreamSSE" /\ outcome = NoOutcome
  /\ outcome' = [written |-> WriterDoneEvent(call.usage, call.extraDone)]
  /\ UNCHANGED <<streamVars, regVars, call>>

(***************************************************************************)
(* Streaming requests: from the request to the start of the callback       *)
(***************************************************************************)
\* a request with config.stream = true: the provider named, what the
\* adapter's transport call does and, if it answers, the result it returns
StreamRequestInit ==
  /\ StreamIdle /\ RegIdle
  /\ call \in [handler : {"askTextStream"},
               config : [provider : {"ollama", "google", UnknownName},
                         model : {"undefined", meta.model}],
               transport : {"ok", "fails", "streamFails"},
               result : TextResult]
  /\ (call.result.usageKind = "resolved" <=> call.result.usage \in Usage)
  /\ call.result.hasTextStream
  /\ (call.transport = "streamFails" <=> call.result.ending = "throw")
  /\ outcome = NoOutcome

\* the streaming branch that opens the stream before it dispatches and
\* reports a dispatch failure as an Error event
handleAskTextStreamingLate ==
  /\ call.handler = "askTextStream" /\ outcome = NoOutcome
  /\ LET provider == registryGet(call.config.provider)
         answer == ollamaOperation([op |-> "generateChatTextStreamResponse",
                                    model |-> call.config.model,
                                    transport |-> call.transport,
                                    cause |-> "API Error", text |-> <<>>])
     IN  /\ outcome' = Json(200, "text/event-stream")
         /\ handler' = "handleStreaming"
         /\ \E t \in BOOLEAN : sinkThrows' = t
         /\ IF provider = Absent \/ ~answer.returned
            THEN pc' = "catch" /\ err' = "Unsupported service" /\ result' = result
            ELSE pc' = "start" /\ err' = err /\ result' = call.result
  /\ UNCHANGED <<regVars, call, payload, consumed, pending, sinkState, sinkCalls>>

\* askText.ts, streaming branch: await processTextOutputRequest(prompt,
\* config) inside the handler's try, then handleStreaming, whose streamSSE
\* starts the callback; a throw before that goes to handleError
handleAskTextStreaming ==
  /\ call.handler = "askTextStream" /\ outcome = NoOutcome
  /\ LET provider == registryGet(call.config.provider)
         answer == ollamaOperation([op |-> "generateChatTextStreamResponse",
                                    model |-> call.config.model,
                                    transport |-> call.transport,
                                    cause |-> "API Error", text |-> <<>>])
     IN  IF provider = Absent
         THEN /\ outcome' = handleError("Unsupported service")
              /\ UNCHANGED streamVars
         ELSE IF ~answer.returned
              THEN /\ outcome' = handleError(answer.error.message)
                   /\ UNCHANGED streamVars
              ELSE /\ outcome' = Json(200, "text/event-stream")
                   /\ handler' = "handleStreaming"
                   /\ result' = call.result
                   /\ \E t \in BOOLEAN : sinkThrows' = t
                   /\ pc' = "start"
                   /\ UNCHANGED <<payload, consumed, err, pending, sinkState, sinkCalls>>
  /\ UNCHANGED <<regVars, call>>

(***************************************************************************)
(* Streaming: two requests at once                                         *)
(***************************************************************************)
\* one step of a run of the handleStreaming callback, between two of its
\* awaits, on the run's own stream, result and error: run holds what the
\* closure of that call holds, and nothing of it is module state
handleStreaming(run, textResult, throws) ==
  LET written == IF run.sinkState = "open" THEN "delivered"
                 ELSE IF throws THEN "threw" ELSE "dropped"
      writeSSE(e) == Append(run.sinkCalls, [op |-> "writeSSE", data |-> e, outcome |-> written])
      close == [op |-> "close",
                outcome |-> IF run.sinkState # "open" /\ throws THEN "threw" ELSE "closed"]
  IN  CASE run.pc = "start" ->
             IF textResult.hasTextStream THEN [run EXCEPT !.pc = "next"]
             ELSE [run EXCEPT !.pc = "catch", !.err = MsgUnsupported]
        [] run.pc = "next" ->
             IF run.consumed < Len(textResult.fragments)
             THEN [run EXCEPT !.consumed = run.consumed + 1, !.pc = "chunk"]
             ELSE IF textResult.ending = "throw"
                  THEN [run EXCEPT !.pc = "catch", !.err = MsgIter]
                  ELSE [run EXCEPT !.pc = "usage"]
        [] run.pc = "chunk" ->
             IF written = "threw"
             THEN [run EXCEPT !.sinkCalls = writeSSE(ChunkEvent(textResult.fragments[run.consumed])),
                              !.pc = "catch", !.err = MsgSink]
             ELSE [run EXCEPT !.sinkCalls = writeSSE(ChunkEvent(textResult.fragments[run.consumed])),
                              !.pc = "next"]
        [] run.pc = "usage" ->
             IF textResult.usageKind = "rejected"
             THEN [run EXCEPT !.pc = "catch", !.err = MsgUsage]
             ELSE IF textResult.usageKind = "absent"
                  THEN [run EXCEPT !.pc = "finally"]
                  ELSE [run EXCEPT !.pc = "done"]
        [] run.pc = "done" ->
             IF written = "threw"
             THEN [run EXCEPT !.sinkCalls = writeSSE(WriterDoneEvent(textResult.usage, EmptyRecord)),
                              !.pc = "catch", !.err = MsgSink]
             ELSE [run EXCEPT !.sinkCalls = writeSSE(WriterDoneEvent(textResult.usage, EmptyRecord)),
                              !.pc = "finally"]
        [] run.pc = "catch" ->
             [run EXCEPT !.sinkCalls = writeSSE(ErrorEvent(run.err)), !.pc = "finally"]
        [] run.pc = "finally" ->
             [run EXCEPT !.sinkCalls = Append(run.sinkCalls, close),
                         !.sinkState = IF run.sinkState = "open" THEN "closed" ELSE run.sinkState,
                         !.pc = "returned"]

\* two handleStreaming callbacks started by two requests: the first one in
\* the callback's variables, the second one in call (its result and sink)
\* and outcome (its run)
ConcurrentInit ==
  LET Results == {r \in TextResult :
                    /\ (r.usageKind = "resolved" <=> r.usage \in Usage)
                    /\ r.usage \in {NoUsage, [promptTokens |-> 1, completionTokens |-> 0,
                                              totalTokens |-> 2]}
                    /\ Len(r.fragments) = (IF r.hasTextStream THEN 1 ELSE 0)
                    /\ (~r.hasTextStream => r.ending = "complete" /\ r.usageKind = "absent")}
  IN  /\ RegIdle
      /\ StreamInit /\ handler = "handleStreaming" /\ result \in Results
      /\ call \in [handler : {"handleStreaming"}, result : Results, sinkThrows : BOOLEAN]
      /\ outcome = [status |-> 200, pc |-> "start", consumed |-> 0, err |-> "",
                    sinkState |-> "open", sinkCalls |-> <<>>]

\* a step of the second run that reads the first request's result
OtherCallbackStepSharedResult ==
  /\ call.handler = "handleStreaming" /\ "pc" \in DOMAIN outcome
  /\ outcome.pc \notin {"returned", "thrown"}
  /\ outcome' = handleStreaming(outcome, result, call.sinkThrows)
  /\ UNCHANGED <<streamVars, regVars, call>>

\* a step of the second run
OtherCallbackStep ==
  /\ call.handler = "handleStreaming" /\ "pc" \in DOMAIN outcome
  /\ outcome.pc \notin {"returned", "thrown"}
  /\ outcome' = handleStreaming(outcome, call.result, call.sinkThrows)
  /\ UNCHANGED <<streamVars, regVars, call>>

\* the caller of the second request disconnects while its callback runs
OtherDisconnect ==
  /\ call.handler = "handleStreaming" /\ "pc" \in DOMAIN outcome
  /\ outcome.pc \notin {"returned", "thrown"}
  /\ outcome.sinkState = "open"
  /\ outcome' = [outcome EXCEPT !.sinkState = "aborted"]
  /\ UNCHANGED <<streamVars, regVars, call>>

(***************************************************************************)
(* Specifications                                                          *)
(***************************************************************************)
Init == StreamInit /\ RegIdle /\ CallIdle

Next == StreamNext

Spec == Init /\ [][Next]_vars

\* the event loop runs every continuation of the callback that is ready
FairSpec == Spec /\ WF_vars(CallbackStep)

InitRegistry == RegInit /\ StreamIdle /\ CallIdle

NextRegistry == RegNext

SpecRegistry == InitRegistry /\ [][NextRegistry]_vars

SpecEnvelope == EnvelopeInit /\ [][EnvelopeNext]_vars

\* handleSyntheticDataRequest as a whole: the streaming callback when the
\* payload asks for a stream, the non-streaming branch otherwise
SyntheticInit ==
  /\ RegIdle
  /\ \/ StreamInit /\ handler = "syntheticData" /\ CallIdle
     \/ EnvelopeInit /\ call.handler = "syntheticData"

SpecSynthetic == SyntheticInit /\ [][StreamNext \/ handleSyntheticDataRequest]_vars

SpecModels == ModelsInit /\ [][providerGetAvailableModels]_vars

SpecJson == JsonInit /\ [][JsonNext]_vars

SpecAdapter == AdapterInit /\ [][adapterOperation]_vars

SpecRegistryOps == RegistryOpsInit /\ [][RegistryOps]_vars

SpecWriter == WriterInit /\ [][writeTextStreamSSE]_vars

SpecStreamRequest == StreamRequestInit /\ [][handleAskTextStreaming \/ StreamNext]_vars

SpecConcurrent == ConcurrentInit /\ [][StreamNext \/ OtherCallbackStep \/ OtherDisconnect]_vars

TypeOK ==
  /\ pc \in {"idle", "start", "next", "chunk", "usage", "done", "catch", "finally",
             "returned", "thrown"}
  /\ consumed \in 0..Len(result.fragments)
  /\ sinkState \in {"open", "aborted", "closed"}
  /\ pending \in BOOLEAN
  /\ DOMAIN providers \subseteq ProviderName
  /\ enabled \in EnabledConfigs

(***************************************************************************)
(* Properties of the streaming callbacks                                   *)
(***************************************************************************)
Finished == pc \in {"returned", "thrown"}

\* the caller stayed connected for the whole run
NeverAborted == sinkState # "aborted"

\* the Chunk events handed to writeSSE, in call order
ChunkWrites == SelectSeq(sinkCalls, LAMBDA c : c.op = "writeSSE" /\ IsChunk(c.data))

FragmentsThenChunks(ev, n) ==
  \A i \in 1..n : IsChunk(ev[i]) /\ ev[i].chunk = result.fragments[i]

\* C1: every stream handleStreaming produces ends with exactly one terminal
\* event (Done or Error) and every event before it is a Chunk, whatever the
\* adapter result (with or without usage, failing or not).
C1_OneTerminalEventLast ==
  (handler = "handleStreaming" /\ Finished /\ NeverAborted) =>
    /\ events # <<>>
    /\ IsTerminal(events[Len(events)])
    /\ \A i \in 1..(Len(events) - 1) : IsChunk(events[i])

\* C2: one Chunk is written per fragment pulled from textStream, in the
\* order of the fragments, and the Chunk of a fragment is written before
\* the next fragment is requested.
C2_OneChunkPerFragment ==
  pc # "idle" =>
    LET n == IF pc = "chunk" THEN consumed - 1 ELSE consumed IN
    /\ Len(ChunkWrites) = n
    /\ \A i \in 1..n : ChunkWrites[i].data.chunk = result.fragments[i]

C2_Witness ==
  /\ handler = "handleStreaming" /\ pc = "returned"
  /\ consumed = 2 /\ result.fragments = <<"1", "x">>
  /\ Len(ChunkWrites) = 2

\* C3: n fragments that complete normally followed by a resolved usage give
\* exactly n+1 events: the n Chunks in order, then one Done event with the
\* usage mapped input_tokens=promptTokens, output_tokens=completionTokens,
\* total_tokens=totalTokens and the extraDone metadata of the call site.
C3_ChunksThenDone ==
  (/\ handler # "syntheticData" /\ Finished /\ NeverAborted
   /\ result.hasTextStream /\ result.ending = "complete"
   /\ result.usageKind = "resolved") =>
    LET n == Len(result.fragments)
        d == events[n + 1]
    IN  /\ Len(events) = n + 1
        /\ FragmentsThenChunks(events, n)
        /\ IsDone(d)
        /\ d.usage = [input_tokens |-> result.usage.promptTokens,
                      output_tokens |-> result.usage.completionTokens,
                      total_tokens |-> result.usage.totalTokens]
        /\ \A k \in DOMAIN extraDone(handler) :
             k \in DOMAIN d /\ d[k] = extraDone(handler)[k]

C3_Witness ==
  /\ handler = "pdfTranslate" /\ pc = "returned" /\ sinkState = "closed"
  /\ result.fragments = <<"1", "x">> /\ result.ending = "complete"
  /\ result.usageKind = "resolved"
  /\ result.usage = [promptTokens |-> 1, completionTokens |-> 0, totalTokens |-> 2]
  /\ Len(events) = 3 /\ events[3].pdfMetadata = "pdfData"

\* C4: when the fragment sequence throws after k fragments, or the usage
\* rejects after all fragments, the output is the k Chunks followed by one
\* Error event, no Done event, and close() is called exactly once.
C4_ChunksThenError ==
  (/\ Finished /\ NeverAborted /\ result.hasTextStream
   /\ (result.ending = "throw" \/ result.usageKind = "rejected")) =>
    LET k == Len(result.fragments) IN
    /\ Len(events) = k + 1
    /\ FragmentsThenChunks(events, k)
    /\ events[k + 1] =
         ErrorEvent(IF result.ending = "throw" THEN MsgIter ELSE MsgUsage)
    /\ \A i \in 1..Len(events) : ~IsDone(events[i])
    /\ NumCloses = 1

C4_Witness ==
  /\ handler = "handleStreaming" /\ pc = "returned" /\ sinkState = "closed"
  /\ Len(result.fragments) = 2 /\ result.ending = "throw"
  /\ Len(events) = 3 /\ IsError(events[3]) /\ NumCloses = 1

\* C5: on every path of a streaming callback close() is eventually called
\* on the sink, and no event is written once close() has been called.
C5_CloseAttemptedLast ==
  /\ <>(NumCloses >= 1)
  /\ [][NumCloses >= 1 => NumWrites' = NumWrites]_vars

\* close() was called after the write of the Error event itself failed
C5_Witness ==
  /\ NumCloses = 1
  /\ \E i \in 1..Len(sinkCalls) :
       /\ sinkCalls[i].op = "writeSSE" /\ IsError(sinkCalls[i].data)
       /\ sinkCalls[i].outcome = "threw"

\* C6: no failure propagates out of a streaming callback as an exception.
C6_NoExceptionEscapes == pc # "thrown"

\* C7: an adapter result without textStream gives exactly one event, the
\* Error event "Streaming not supported for this provider/model"; nothing
\* else is written, no fragment is consumed and no exception leaves the
\* callback.
C7_StreamingUnsupported ==
  (UsesWriter(handler) /\ pc # "idle" /\ ~result.hasTextStream) =>
    /\ consumed = 0
    /\ pc # "thrown"
    /\ NumWrites <= 1
    /\ \A i \in 1..Len(sinkCalls) :
         sinkCalls[i].op = "writeSSE" => sinkCalls[i].data = ErrorEvent(MsgUnsupported)
    /\ (pc \in {"finally", "returned"} => NumWrites = 1)
    /\ (pc = "returned" /\ NeverAborted => events = <<ErrorEvent(MsgUnsupported)>>)

C7_Witness ==
  /\ handler = "handleStreaming" /\ ~result.hasTextStream /\ pc = "returned"
  /\ events = <<[error |-> "Streaming not supported for this provider/model",
                 done |-> TRUE]>>

\* C8: once the caller has disconnected from a stream of fragments the
\* writer consumes no further fragment and writes no further event, and it
\* calls close().
C8_StopsAfterDisconnect ==
  /\ [][(result.hasTextStream /\ sinkState = "aborted") =>
          (consumed' = consumed /\ NumWrites' = NumWrites)]_vars
  /\ [](Finished => NumCloses >= 1)

(***************************************************************************)
(* Properties of the registry and the dispatch facade                      *)
(***************************************************************************)
DispatchEntries ==
  {"processTextOutputRequest", "processTextOutputStreamRequest",
   "processStructuredOutputRequest", "generateImageResponse", "extractOCRText"}

\* C9: get(n) returns an adapter named n for every enabled provider n and
\* absent for every disabled or unknown name.
C9_GetMatchesEnabled ==
  \A n \in RequestNames :
    IF n \in ProviderName /\ enabled[n]
    THEN registryGet(n) # Absent /\ registryGet(n).name = n
    ELSE registryGet(n) = Absent

\* C10: no dispatch entry point invokes an adapter operation on a provider
\* whose configuration has enabled=false.
C10_NoDispatchToDisabled ==
  request.entry \in DispatchEntries => \A i \in invoked : enabled[i.adapter]

\* C11: a dispatch entry point asked for a provider the registry does not
\* hold fails with the not-registered error that names the requested
\* provider, and calls no operation of any adapter (no other provider is
\* substituted).
C11_AbsentProviderFails ==
  (request.entry \in DispatchEntries /\ registryGet(request.name) = Absent) =>
    /\ response.kind = "error"
    /\ response.detail \in {"Unsupported service", "Provider not registered"}
    /\ response.subject = request.name
    /\ invoked = {}

C11_Witness ==
  /\ request.entry = "processTextOutputRequest" /\ request.name = "google"
  /\ response = [kind |-> "error", detail |-> "Unsupported service", subject |-> "google"]
  /\ "openai" \in DOMAIN providers
  /\ invoked = {}

\* the entry points that need the adapter's describeImage
VisionEntries == {"generateImageResponse", "extractOCRText", "handleOcrRequest"}

\* C12: a vision or OCR request for a registered adapter that has no
\* describeImage operation fails with the capability-not-supported error
\* and no operation of the adapter has been called.
C12_NoCapabilityNoCall ==
  (/\ request.entry \in VisionEntries
   /\ registryGet(request.name) # Absent
   /\ ~registryGet(request.name).describeImage) =>
    /\ response.kind = "error"
    /\ response.detail = (IF request.entry = "handleOcrRequest" THEN MsgOcr ELSE MsgVision)
    /\ response.subject = request.name
    /\ invoked = {}

C12_Witness ==
  /\ request.entry = "handleOcrRequest" /\ request.name = "openai"
  /\ response.kind = "error"
  /\ response.detail = "OCR capabilities not supported for service"
  /\ invoked = {}

(***************************************************************************)
(* Properties of the non-streaming response envelope                       *)
(***************************************************************************)
UsageFields == {"input_tokens", "output_tokens", "total_tokens"}

Answered == outcome # NoOutcome

\* C13: the envelope of every non-streaming text request whose adapter call
\* succeeded is a success and carries a usage record with the three counts
\* present as non-negative integers; it is all zero when the adapter result
\* has no usage.
C13_EnvelopeCarriesUsage ==
  (call.handler \in TextHandlers /\ Answered) =>
    /\ outcome.status = 200
    /\ DOMAIN outcome.body.usage = UsageFields
    /\ \A k \in UsageFields : outcome.body.usage[k] \in Nat
    /\ (~call.result.hasUsage =>
          outcome.body.usage = [input_tokens |-> 0, output_tokens |-> 0, total_tokens |-> 0])

\* the input and output counts the provider reported, under the names the
\* handler reads them by
ProviderIn ==
  IF call.handler \in VisionHandlers THEN call.result.prompt_eval_count
  ELSE IF call.handler = "summarize" THEN call.result.usage.promptTokens
       ELSE call.result.usage.inputTokens
ProviderOut ==
  IF call.handler \in VisionHandlers THEN call.result.eval_count
  ELSE IF call.handler = "summarize" THEN call.result.usage.completionTokens
       ELSE call.result.usage.outputTokens

\* C14: in every usage record of a successful envelope total_tokens is
\* input_tokens + output_tokens whenever the provider reported both the
\* input and the output count.
C14_TotalIsSum ==
  (Answered /\ outcome.status = 200 /\ ProviderIn # Undefined /\ ProviderOut # Undefined) =>
    /\ DOMAIN outcome.body.usage = UsageFields
    /\ outcome.body.usage.total_tokens = ProviderIn + ProviderOut
    /\ outcome.body.usage.total_tokens
         = outcome.body.usage.input_tokens + outcome.body.usage.output_tokens

(***************************************************************************)
(* Properties of the synthetic-data parser and validator                   *)
(***************************************************************************)
Parsed == call.handler = "parseAndValidateJSON" /\ Answered

\* the text between the fences when t is one fenced block (opening fence
\* with or without the json tag, closing fence), else the empty text
FencedInner(t) ==
  IF StartsWith(t, FenceJson) /\ EndsWith(t, Fence) /\ Len(t) >= Len(FenceJson) + Len(Fence)
  THEN SubSeq(t, Len(FenceJson) + 1, Len(t) - Len(Fence))
  ELSE IF StartsWith(t, Fence) /\ EndsWith(t, Fence) /\ Len(t) >= 2 * Len(Fence)
       THEN SubSeq(t, Len(Fence) + 1, Len(t) - Len(Fence))
       ELSE <<>>

\* the JSON values spelled by the substrings of t
ValuesIn(t) ==
  {JSONParse(SubSeq(t, i, j)).value :
     <<i, j>> \in {p \in (1..Len(t)) \X (1..Len(t)) :
                     p[1] <= p[2] /\ IsValue(SubSeq(t, p[1], p[2]))}}

\* C15: parseAndValidateJSON returns a value for every text and schema; a
\* text that is one fenced block around valid JSON gives the parsed JSON
\* as data, valid under an absent or matching schema; a text no part of
\* which is JSON gives the parse-failure value with valid = FALSE.
C15_ParseNeverThrows ==
  Parsed =>
    LET inner == FencedInner(Trim(call.text)) IN
    /\ outcome.returned
    /\ DOMAIN outcome.value = {"data", "valid"}
    /\ JSONParse(inner).ok =>
         /\ outcome.value.data = JSONParse(inner).value
         /\ (~call.schema.present \/ call.schema.type = JSONParse(inner).value.type) =>
              outcome.value.valid
    /\ ValuesIn(call.text) = {} =>
         outcome.value = [data |-> [error |-> "Failed to parse generated data as valid JSON"],
                          valid |-> FALSE]

C15_Witness ==
  /\ Parsed
  /\ call.text = <<"bt", "bt", "bt", "j", "s", "o", "n", " ", "{", "}", " ", "bt", "bt", "bt">>
  /\ call.schema = Schema("object", "")
  /\ outcome.value = [data |-> [type |-> "object", val |-> <<"{", "}">>], valid |-> TRUE]

\* C16: when the text without fences is not JSON but holds a balanced
\* {...} or [...] substring that is, the data returned is the value of such
\* a substring, not the parse failure.
C16_BalancedSubstringFallback ==
  (/\ Parsed
   /\ \A i \in 1..Len(call.text) : call.text[i] # "bt"
   /\ ~JSONParse(call.text).ok
   /\ \E v \in ValuesIn(call.text) : v.type \in {"object", "array"}) =>
    outcome.value.data \in {v \in ValuesIn(call.text) : v.type \in {"object", "array"}}

Validated == call.handler = "validateAgainstSchema" /\ Answered

\* C17: the verdict is TRUE without a schema; with a schema whose type is
\* object, array, string, number or boolean it is TRUE exactly when the JSON
\* type of the value is that type; the nested part of the schema has no
\* influence.
C17_TypeOnlyVerdict ==
  Validated =>
    /\ ~call.schema.present => outcome.value
    /\ call.schema.type \in {"object", "array", "string", "number", "boolean"} =>
         (outcome.value <=> call.data.type = call.schema.type)
    /\ \A nested \in {"", "number", "string"} :
         validateAgainstSchema(call.data, [call.schema EXCEPT !.nested = nested])
           = outcome.value

\* C18: a verdict of valid = FALSE does not suppress the result. Streaming:
\* every Done event carries the parsed data and the verdict, and a run
\* whose text and usage arrived ends with the Done event and no Error event
\* although the data is invalid. Non-streaming: the request succeeds
\* whenever the adapter result has its usage, whatever the verdict, and the
\* envelope carries the parsed data and the verdict.
C18_InvalidDataStillReturned ==
  /\ handler = "syntheticData" =>
       LET pv == parseAndValidateJSON(result.fragments, payload.schema) IN
       /\ \A i \in 1..Len(sinkCalls) :
            (sinkCalls[i].op = "writeSSE" /\ IsDone(sinkCalls[i].data)) =>
              /\ "data" \in DOMAIN sinkCalls[i].data
              /\ sinkCalls[i].data.data = pv.data
              /\ sinkCalls[i].data.metadata.validation_passed = pv.valid
       /\ (/\ pc = "returned" /\ NeverAborted /\ ~pv.valid
           /\ result.hasTextStream /\ result.ending = "complete"
           /\ result.usageKind = "resolved") =>
            /\ events # <<>>
            /\ IsDone(events[Len(events)])
            /\ \A i \in 1..Len(events) : ~IsError(events[i])
  /\ (call.handler = "syntheticData" /\ Answered) =>
       LET pv == parseAndValidateJSON(call.result.text, call.payload.schema) IN
       /\ outcome.status = 200 <=> call.result.hasUsage
       /\ outcome.status = 200 =>
            /\ outcome.body.data = pv.data
            /\ outcome.body.metadata.validation_passed = pv.valid

C18_Witness ==
  /\ handler = "syntheticData" /\ pc = "returned"
  /\ payload.schema = Schema("string", "")
  /\ Len(events) = 2
  /\ IsChunk(events[1])
  /\ IsDone(events[2])
  /\ events[2].data = [type |-> "number", val |-> <<"1">>]
  /\ events[2].metadata.validation_passed = FALSE

C20_PrimaryIsLowestEnabled ==
  request.entry = "getPrimaryService" =>
    LET on == {n \in ServiceNames : enabled[n]} IN
    /\ response.kind = "result"
    /\ response.detail = "null" <=> on = {}
    /\ on # {} =>
         /\ response.detail \in on
         /\ \A n \in on : Priority[response.detail] <= Priority[n]

C20_Witness ==
  /\ request.entry = "getPrimaryService"
  /\ ~enabled["openai"] /\ ~enabled["anthropic"] /\ enabled["ollama"] /\ enabled["llamacpp"]
  /\ response.detail = "ollama"

C22_DispatchLeavesRegistry == providers = RegistryLoaded

C22_Witness ==
  /\ request.entry = "getAvailableModels" /\ request.name = "openai"
  /\ ~enabled["openai"]
  /\ response = Returned("empty list")
  /\ providers = RegistryLoaded

\* C27: register(p) makes get(p.name) return p, unregister(n) makes get(n)
\* absent and leaves every other name as it was, and a map returned by
\* getAll() is not changed by later changes of the registry, nor the
\* registry by changes of that map.
C27_RegistryOperations ==
  [][/\ call'.op = "register" =>
          \A n \in RequestNames \cup ServiceNames :
            n = call'.provider.name => registryGet(n)' = call'.provider
     /\ call'.op = "unregister" =>
          \A n \in RequestNames \cup ServiceNames :
            registryGet(n)' = IF n = call'.name THEN Absent ELSE registryGet(n)
     /\ call'.op = "clear" =>
          \A n \in RequestNames \cup ServiceNames : registryGet(n)' = Absent
     /\ (outcome # NoOutcome /\ call'.op \in {"register", "unregister", "clear",
                                              "replaceRegistryForTests"}) =>
          Snapshot' = Snapshot
     /\ call'.op = "snapshotDelete" => providers' = providers]_vars

C27_Witness ==
  /\ call = [handler |-> "registry", op |-> "snapshotDelete", name |-> "openai"]
  /\ outcome.ref = "copy"
  /\ "openai" \notin DOMAIN outcome.entries
  /\ "google" \in DOMAIN outcome.entries
  /\ registryGet("openai") = [name |-> "openai", describeImage |-> TRUE]
  /\ registryGet("google") = Absent

\* C28: after replaceRegistryForTests(r) the global registry holds exactly
\* the providers that r held when the call was made, also when r is empty,
\* shares names with the global registry, or is the global registry itself.
C28_ReplaceCopiesArgument ==
  [][call'.op = "replaceRegistryForTests" =>
       providers' = IF call'.registry.ref = "serviceRegistry"
                    THEN providers ELSE call'.registry.providers]_vars

\* C24: a summarize request without stream and without model, answered by
\* an adapter with {text, usage: {promptTokens, completionTokens,
\* totalTokens}}, gets the envelope {summary, provider, model, usage} whose
\* model is the default model the adapter used.
C24_EnvelopeNamesDefaultModel ==
  (/\ call.handler = "summarize" /\ Answered
   /\ call.config.model = "undefined"
   /\ call.result.hasUsage
   /\ Undefined \notin {call.result.usage.promptTokens, call.result.usage.completionTokens,
                        call.result.usage.totalTokens}) =>
    outcome = Json(200, [summary |-> call.result.text,
                         provider |-> call.config.provider,
                         model |-> modelToUse(call.config.model),
                         usage |-> [input_tokens |-> call.result.usage.promptTokens,
                                    output_tokens |-> call.result.usage.completionTokens,
                                    total_tokens |-> call.result.usage.totalTokens]])

(***************************************************************************)
(* Properties of the event protocol                                        *)
(***************************************************************************)
\* the events of the writeSSE calls that went through (the call did not
\* raise), in call order
Written ==
  LET went == SelectSeq(sinkCalls, LAMBDA c : c.op = "writeSSE" /\ c.outcome # "threw")
  IN  [i \in 1..Len(went) |-> went[i].data]

\* C25: in every run of every streaming callback, at every moment, at most
\* one event with done:true has been written and it is the last event
\* written: no Done is followed by an Error, no Error by a Chunk or a Done.
C25_TerminalEventIsLast ==
  \A i \in 1..Len(Written) :
    ("done" \in DOMAIN Written[i] /\ Written[i].done = TRUE) => i = Len(Written)

\* the Done write raised on a sink the caller left and the catch block then
\* tried the Error event, which raised as well: neither was written
C25_Witness ==
  /\ Finished
  /\ \E i \in 1..(Len(sinkCalls) - 1) :
       /\ sinkCalls[i].op = "writeSSE" /\ IsDone(sinkCalls[i].data)
       /\ sinkCalls[i].outcome = "threw"
       /\ sinkCalls[i + 1].op = "writeSSE" /\ IsError(sinkCalls[i + 1].data)
       /\ sinkCalls[i + 1].outcome = "threw"
  /\ \E j \in 1..Len(Written) : IsChunk(Written[j])

\* C26: whatever record is passed as extraDone, the Done event of
\* writeTextStreamSSE has done = true and the usage, provider and model of
\* the adapter result and the request meta; the keys of extraDone are added
\* and replace none of these.
C26_ExtraDoneOnlyAdds ==
  (call.handler = "writeTextStreamSSE" /\ Answered) =>
    /\ outcome.written.done = TRUE
    /\ outcome.written.usage = UsageOut(call.usage)
    /\ outcome.written.provider = meta.provider
    /\ outcome.written.model = meta.model
    /\ DOMAIN call.extraDone \subseteq DOMAIN outcome.written

\* C29: processTextOutputRequest calls one operation of the adapter
\* registered under config.provider: generateChatTextStreamResponse when
\* config.stream is true, generateChatTextResponse when it is false or left
\* out, and never the other one, with config.model as it was given.
C29_OneOperationByStream ==
  (request.entry = "processTextOutputRequest" /\ registryGet(request.name) # Absent) =>
    invoked = {[adapter |-> registryGet(request.name).name,
                op |-> IF request.config.stream = "true"
                       THEN "generateChatTextStreamResponse"
                       ELSE "generateChatTextResponse",
                model |-> request.config.model]}

C29_Witness ==
  /\ request.entry = "processTextOutputRequest" /\ request.name = "ollama"
  /\ request.config = [stream |-> "undefined", model |-> "undefined"]
  /\ invoked = {[adapter |-> "ollama", op |-> "generateChatTextResponse",
                 model |-> "undefined"]}
  /\ response = Returned("ollama")

(***************************************************************************)
(* Properties of streaming requests                                        *)
(***************************************************************************)
\* C30: when the provider of a streaming request is not registered or the
\* adapter operation rejects, the request is answered with an HTTP error
\* response, the callback never starts and no writeSSE or close call is
\* made; whenever a sink call has been made, the adapter operation had
\* returned a result.
C30_DispatchBeforeStream ==
  /\ (/\ call.handler = "askTextStream" /\ Answered
      /\ (registryGet(call.config.provider) = Absent \/ call.transport = "fails")) =>
       /\ outcome.status = 500 /\ "error" \in DOMAIN outcome.body
       /\ pc = "idle"
       /\ sinkCalls = <<>>
  /\ (call.handler = "askTextStream" /\ (pc # "idle" \/ sinkCalls # <<>>)) =>
       /\ registryGet(call.config.provider) # Absent
       /\ call.transport # "fails"
       /\ outcome = Json(200, "text/event-stream")

C30_Witness ==
  /\ call.handler = "askTextStream" /\ call.config.provider = "ollama"
  /\ call.transport = "fails"
  /\ outcome = handleError("Ollama streaming response error")
  /\ pc = "idle" /\ sinkCalls = <<>>

(***************************************************************************)
(* Properties of concurrent streaming requests                             *)
(***************************************************************************)
\* the events a request's sink receives when its callback runs alone with
\* the caller connected
SoloEvents(textResult) ==
  IF ~textResult.hasTextStream THEN <<ErrorEvent(MsgUnsupported)>>
  ELSE [i \in 1..Len(textResult.fragments) |-> ChunkEvent(textResult.fragments[i])] \o
       (IF textResult.ending = "throw" THEN <<ErrorEvent(MsgIter)>>
        ELSE IF textResult.usageKind = "rejected" THEN <<ErrorEvent(MsgUsage)>>
        ELSE IF textResult.usageKind = "absent" THEN <<>>
        ELSE <<WriterDoneEvent(textResult.usage, EmptyRecord)>>)

IsPrefix(s, t) == Len(s) <= Len(t) /\ s = SubSeq(t, 1, Len(s))

\* C23: with two streaming requests running at once under every
\* interleaving of their steps, each sink has received, at every moment, a
\* prefix of the events its own request produces alone, and all of them once
\* its callback has ended with its caller connected, whatever the other
\* request does (fails, ends, or loses its caller).
C23_RequestsDoNotInterfere ==
  call.handler = "handleStreaming" =>
    /\ IsPrefix(events, SoloEvents(result))
    /\ IsPrefix(Delivered(outcome.sinkCalls), SoloEvents(call.result))
    /\ (Finished /\ NeverAborted) => events = SoloEvents(result)
    /\ (outcome.pc = "returned" /\ outcome.sinkState # "aborted") =>
         Delivered(outcome.sinkCalls) = SoloEvents(call.result)

\* the first request has failed and closed, the second one, interleaved with
\* it, has delivered its Chunk and Done to its own sink
C23_Witness ==
  /\ call.handler = "handleStreaming"
  /\ result.fragments = <<"1">> /\ result.ending = "throw"
  /\ call.result.fragments = <<"x">> /\ call.result.usageKind = "resolved"
  /\ call.result.ending = "complete"
  /\ Finished /\ outcome.pc = "returned"
  /\ events = <<ChunkEvent("1"), ErrorEvent(MsgIter)>>
  /\ Len(Delivered(outcome.sinkCalls)) = 2
  /\ IsDone(Delivered(outcome.sinkCalls)[2])

====
